---- MODULE Spec2Model ----
(***************************************************************************)
(* Model of app.py, the Türkiye earthquakes dashboard.                     *)
(*                                                                         *)
(* The Streamlit server runs the script top to bottom once per widget      *)
(* change of a browser session (a render pass), each pass on a script      *)
(* thread of its own, all threads of the process sharing the st.cache_data *)
(* store and the working directory.  A widget change during a running pass *)
(* does not wait for it (runner.fastReruns): the running pass is told to   *)
(* stop, which it does at its next st.* call, and the next pass of the     *)
(* session starts at once on a new thread, so that passes of one session   *)
(* overlap as passes of two sessions do.  A pass is a sequence of steps:   *)
(*   Start        lines 49-67 up to the cache lookup, and on a miss the    *)
(*                GET of line 24 is sent                                   *)
(*   AcquireLock  a call that waited for the computation of its pair       *)
(*   Receive      the response arrives: lines 24-46, the cache write and   *)
(*                the return of the call of line 67                        *)
(*   OpenFile     line 70, the file is opened for writing                  *)
(*   WriteFile    line 70, the rows are written and the file is closed     *)
(*   Run          lines 73-147 to the end or to the uncaught exception     *)
(*   Stop         lines 73-147 up to the st.* call at which the runner     *)
(*                stops the pass because the session asked for a rerun     *)
(* The runner stops a pass whose session asked for a rerun at the next     *)
(* st.* call the pass makes.  The cached call of line 67 makes two, the    *)
(* st.empty() on entering its spinner and the message.empty() on leaving   *)
(* it; the latter runs in a finally clause, also when an exception leaves  *)
(* the function, and the rerun then takes the place of the exception.      *)
(* Lines 73-147 touch nothing but the pass's own variables and its page,   *)
(* so Run and Stop are single steps; the steps before them interleave      *)
(* with the steps of the other session.  A pass stopped at the title or    *)
(* the date slider (lines 54, 57) has done nothing and is no step.         *)
(*                                                                         *)
(* Units. Timestamps (column "date") are minutes since 00:00 of day 0;     *)
(* calendar dates are day numbers; magnitudes are tenths (4.4 is 44), so   *)
(* the slider's step 0.1 is 1.  A magnitude cell is a record               *)
(*   [kind |-> "num", v |-> tenths]   a number                             *)
(*   [kind |-> "nan", v |-> 0]        absent (null in the JSON)            *)
(*   [kind |-> "str", v |-> 0]        a string float() cannot parse        *)
(* Library calls (requests, pandas, st.cache_data) are modelled by their   *)
(* behaviour on these values.                                              *)
(***************************************************************************)
EXTENDS Integers, Sequences, FiniteSets, TLC

VARIABLES
    \* the process
    cache,              \* st.cache_data store of get_earthquake_data: key -> table
    locked,             \* keys whose value is being computed under the cache's lock
    key_locks,          \* Streamlit build: a miss computes under a per-key lock
    lenient_apply,      \* pandas build: .apply over a one-row diff gives NaN, does not raise
    file,               \* rows of earthquake_data.csv on disk
    gets,               \* HTTP GETs issued since process start
    ok_gets,            \* of these, the ones answered with a 2xx status
    returned_gets,      \* of these, the ones after which get_earthquake_data returned
    dup_gets,           \* of these, the ones sent while another GET for the same pair was in flight
    requested,          \* (start, end) pairs get_earthquake_data was called with
    first_returned,     \* key -> table returned by the first call that returned
    last_fetched,       \* key -> table returned by the latest call that fetched
    \* the running passes
    thread,             \* script thread -> position and local variables of its pass
    \* the pass that ended in the step just taken, and the page it left (the
    \* values of Init when the step ended no pass)
    date_range,         \* its inputs
    magnitude_range,
    now,
    response,           \* HTTP response it got (NoResponse if none)
    request,            \* params of its GET
    fetched,            \* it issued a GET
    was_cached,         \* an earlier call with its pair had returned when it called
    json_parsed,        \* it reached response.json()
    outcome,            \* "done", "failed" (uncaught exception), "stopped" or "none"
    err,                \* the exception that ended it, or "none"
    shown,              \* outputs it produced
    df_fetched,         \* table get_earthquake_data returned to it
    df_filtered_l76,    \* df_filtered as assigned at line 76
    count,              \* "Total Earthquakes Count"
    gap,                \* 24-hour gap widget
    top10,              \* "10 Strongest Earthquakes" table
    csv                 \* rows of the CSV behind the download button

procvars == <<cache, locked, key_locks, lenient_apply, file, gets, ok_gets,
              returned_gets, dup_gets, requested, first_returned, last_fetched>>

pagevars == <<date_range, magnitude_range, now, response, request, fetched,
              was_cached, json_parsed, outcome, err, shown, df_fetched,
              df_filtered_l76, count, gap, top10, csv>>

vars == <<procvars, thread, pagevars>>

----------------------------------------------------------------------------
(* Program constants *)

MinutesPerDay == 1440
ISTShift == 180
WindowMinutes == 1440
TopN == 10
SliderMin == 0
SliderMax == 80
Country == "Türkiye"

(* Bounds of the model *)

\* rows of a response of the first pass
MaxRows == 3
\* HTTP GETs of a process
MaxGets == 2

----------------------------------------------------------------------------
(* Generic helpers *)

Range(s) == {s[i] : i \in 1..Len(s)}

SeqsUpTo(S, n) == UNION {[1..k -> S] : k \in 0..n}

Min(a, b) == IF a <= b THEN a ELSE b

RECURSIVE Sum(_)
Sum(s) == IF s = <<>> THEN 0 ELSE Head(s) + Sum(Tail(s))

Occurrences(x, s) == Cardinality({i \in 1..Len(s) : s[i] = x})

\* The orders of the rows s[i], i in left, by the integer keys key[i],
\* ascending, rows of equal keys in any order.
RECURSIVE orders_of(_, _, _)
orders_of(s, key, left) ==
    IF left = {} THEN {<<>>}
    ELSE LET firsts == {i \in left : \A j \in left : key[i] <= key[j]}
         IN  UNION {{<<s[i]>> \o rest : rest \in orders_of(s, key, left \ {i})} :
                    i \in firsts}

\* sort_values (default kind='quicksort', which is not stable): the orders the
\* sort of the rows s by the keys can give.
sort_values(s, key) == orders_of(s, key, 1..Len(s))

----------------------------------------------------------------------------
(* datetime *)

time_min == [hour |-> 0, minute |-> 0, second |-> 0, microsecond |-> 0]
time_max == [hour |-> 23, minute |-> 59, second |-> 59, microsecond |-> 999999]

combine(d, t) == [date |-> d, hour |-> t.hour, minute |-> t.minute,
                  second |-> t.second, microsecond |-> t.microsecond]

\* "%Y-%m-%d %H:%M:%S": the microseconds are not printed.
strftime(dt) == <<dt.date, dt.hour, dt.minute, dt.second>>

start_date_sel(dr) == combine(dr[1], time_min)
end_date_sel(dr) == combine(dr[2], time_max)

\* Seconds since 00:00:00 of day 0 of a formatted bound.
SecondsOf(str) == ((str[1] * 24 + str[2]) * 60 + str[3]) * 60 + str[4]

----------------------------------------------------------------------------
(* get_earthquake_data *)

NaN == [kind |-> "nan", v |-> 0]
Num(v) == [kind |-> "num", v |-> v]
Str == [kind |-> "str", v |-> 0]

NoResponse == [exc |-> FALSE, status |-> 0, json_ok |-> FALSE, body |-> <<>>]
NoRequest == [start |-> <<0, 0, 0, 0>>, end |-> <<0, 0, 0, 0>>]
NoGap == [kind |-> "none", total |-> 0, n |-> 0]

\* Variant: only server errors raise.
raise_for_status_5xx(status) == 500 <= status /\ status < 600

\* response.raise_for_status(): HTTPError for 4xx and 5xx, nothing otherwise.
raise_for_status(status) == 400 <= status /\ status < 600

\* response.content: http.client reads no body from a 101-199, 204 or 304
\* response, whatever the server sent after the headers.  (A 100 is no
\* answer: http.client skips it and reads the status line that follows.)
no_body(status) == status \in {204, 304} \/ (101 <= status /\ status < 200)

\* Variant: the calendar date of the IST-shifted timestamp.
dt_date_ist(ts) == (ts + ISTShift) \div MinutesPerDay

\* df["date"].dt.date
dt_date(ts) == ts \div MinutesPerDay

\* Lines 34-41: keep the rows of the country, derive date_s.
Normalize(body) ==
    LET kept == SelectSeq(body, LAMBDA r : r.country = Country)
    IN  [i \in 1..Len(kept) |->
            [date |-> kept[i].date, date_s |-> dt_date(kept[i].date),
             magnitude |-> kept[i].magnitude]]

\* The body of get_earthquake_data, run on a cache miss; resp is the answer
\* requests.get hands back.
get_earthquake_data(start_date, end_date, resp) ==
    LET params == [start |-> strftime(start_date), end |-> strftime(end_date)]
        out(e, parsed, t) == [request |-> params, err |-> e, json_parsed |-> parsed, df |-> t]
    IN  IF resp.exc THEN out("ConnectionError", FALSE, <<>>)
        ELSE IF raise_for_status(resp.status) THEN out("HTTPError", FALSE, <<>>)
        ELSE IF ~resp.json_ok \/ no_body(resp.status)
             THEN out("JSONDecodeError", TRUE, <<>>)
        \* an empty array gives a frame without columns: df_r['country'] fails
        ELSE IF resp.body = <<>> THEN out("KeyError", TRUE, <<>>)
        ELSE out("none", TRUE, Normalize(resp.body))

\* st.cache_data keys an entry by the arguments' values.
CacheKey(start_date, end_date) == <<start_date, end_date>>

\* Variant: the cache and the caller share one object (st.cache_resource).
cache_resource_entry(stored, mutated_by_caller) == mutated_by_caller

\* st.cache_data hands every caller its own copy of the stored value: what the
\* cache holds after the caller changed the table it got is the stored table.
cache_data_entry(stored, mutated_by_caller) == stored

----------------------------------------------------------------------------
(* The script, lines 70-147, as operators on tables *)

\* Line 70: df.to_csv("earthquake_data.csv", index=False): one line per row,
\* without the index column "date".
to_csv_noindex(t) ==
    [i \in 1..Len(t) |-> [date_s |-> t[i].date_s, magnitude |-> t[i].magnitude]]

\* Line 70: the lines of a table fit in the writer's buffer and reach the file
\* in one write at close, from the start of the file, over what the file holds
\* by then: lines beyond the written ones stay.  (The header line is the same
\* for every table and the lines are taken to be of one width.)
write_over(old, lines) == lines \o SubSeq(old, Len(lines) + 1, Len(old))

\* Line 76: .astype(float) raises ValueError on a string that is no number.
astype_float_raises(t) == \E i \in 1..Len(t) : t[i].magnitude.kind = "str"

\* Variant: the upper bound is exclusive.
within_exclusive(m, mr) == m.kind = "num" /\ m.v >= mr[1] /\ m.v < mr[2]

\* Line 76: both comparisons are False on NaN.
within(m, mr) == m.kind = "num" /\ m.v >= mr[1] /\ m.v <= mr[2]

magnitude_filter(t, mr) == SelectSeq(t, LAMBDA r : within(r.magnitude, mr))

\* Variant: the count corrected by the two known early earthquakes.
total_count_minus2(t) == Len(t) - 2

\* Line 79
total_count(t) == Len(t)

\* Line 83: the orders sort_values("date_s") can give
sort_values_date_s(t) == sort_values(t, [i \in 1..Len(t) |-> t[i].date_s])

\* Lines 84 and 87: t["time_diff"] = t["date_s"].diff() in minutes; the first
\* row has no predecessor and gets NaN.
with_time_diff(t) ==
    [i \in 1..Len(t) |->
        [date |-> t[i].date, date_s |-> t[i].date_s, magnitude |-> t[i].magnitude,
         time_diff |-> IF i = 1 THEN NaN
                       ELSE Num((t[i].date_s - t[i - 1].date_s) * MinutesPerDay)]]

\* Lines 84 and 87: .apply(lambda x: x.total_seconds() / 60).  With two or
\* more rows the diff of the date column is timedelta64 and NaT gives NaN.
\* The diff of a one-row column is the object column [nan], and a float has
\* no total_seconds: AttributeError, unless the pandas build in use converts
\* that column too (lenient).
apply_raises(t, lenient) == ~lenient /\ Len(t) = 1

\* Line 85
dropna_time_diff(t) == SelectSeq(t, LAMBDA r : r.time_diff.kind # "nan")

\* Line 90
df_last_24_hours(t, nw) == SelectSeq(t, LAMBDA r : r.date >= nw - WindowMinutes)

\* Line 97: mean of the successive differences of the window's timestamps,
\* kept as the fraction total / n (minutes); NaT for a one-row window.
avg_time_diff(w) ==
    IF Len(w) < 2 THEN [kind |-> "NaT", total |-> 0, n |-> 0]
    ELSE [kind |-> "timedelta",
          total |-> Sum([i \in 1..(Len(w) - 1) |-> w[i + 1].date - w[i].date]),
          n |-> Len(w) - 1]

\* Lines 90-101
gap_widget(t, nw) ==
    LET w == df_last_24_hours(t, nw)
    IN  IF w # <<>> /\ \A i \in 1..Len(w) : w[i].time_diff.kind # "nan"
        THEN avg_time_diff(w)
        ELSE [kind |-> "warning", total |-> 0, n |-> 0]

\* Line 104: pd.to_numeric without errors='coerce'
to_numeric_raises(t) == \E i \in 1..Len(t) : t[i].magnitude.kind = "str"

\* Lines 115-116: to_numeric(errors='coerce') then dropna(subset=['magnitude'])
coerce_dropna(t) == SelectSeq(t, LAMBDA r : r.magnitude.kind = "num")

\* Lines 83-85 and 115-116 on the order s83 chosen at line 83: df_filtered as
\* the charts, the table and the download see it.
df_filtered_l116(s83) == coerce_dropna(dropna_time_diff(with_time_diff(s83)))

\* Line 132: the orders sort_values("magnitude", ascending=False) can give
sort_values_magnitude_desc(t) ==
    sort_values(t, [i \in 1..Len(t) |-> 0 - t[i].magnitude.v])

\* Line 132: .head(10) of the order s132 chosen by the sort
head(s132) == SubSeq(s132, 1, Min(TopN, Len(s132)))

\* Lines 135-139: to_csv() with the index, one line per row
convert_df(t) ==
    [i \in 1..Len(t) |->
        [date |-> t[i].date, date_s |-> t[i].date_s, magnitude |-> t[i].magnitude,
         time_diff |-> t[i].time_diff]]

\* What lines 73-147 put on the page, in the order of their st.* calls
\* (lines 73, 79, 98 or 101, 111, 118, 123, 127, 132, 141, 147).  The headers
\* and the caption (lines 106, 114, 121, 126, 130, 131, 140) are left out: a
\* pass stopped at one of them has the page of the pass stopped at the output
\* that follows.
Emitted == <<"slider", "count", "gap", "map", "area_chart", "bar_chart",
             "line_chart", "table", "download", "source">>

\* The page of a pass that wrote the file and made the first n of these calls.
ShownUpTo(n) == {"file"} \cup {Emitted[i] : i \in 1..n}

AllOutputs == ShownUpTo(Len(Emitted))

\* Lines 73-147 on the table returned at line 67, with the orders the two
\* sorts chose: the exception that ends them, the number of st.* calls made,
\* df at the end, and the values computed on the way.
Script(t, mr, nw, lenient, s83, s132) ==
    LET f76 == magnitude_filter(t, mr)
        f85 == dropna_time_diff(with_time_diff(s83))
        d87 == with_time_diff(t)
        f116 == df_filtered_l116(s83)
        base == [err |-> "none", n_emit |-> 1, df |-> t, f76 |-> <<>>, count |-> 0,
                 gap |-> NoGap, top10 |-> <<>>, csv |-> <<>>]
    IN  IF astype_float_raises(t)
        THEN [base EXCEPT !.err = "ValueError"]
        ELSE IF apply_raises(s83, lenient)
        THEN [base EXCEPT !.err = "AttributeError", !.n_emit = 2,
                          !.f76 = f76, !.count = total_count(f76)]
        ELSE IF apply_raises(t, lenient)
        THEN [base EXCEPT !.err = "AttributeError", !.n_emit = 2,
                          !.f76 = f76, !.count = total_count(f76)]
        ELSE IF to_numeric_raises(f85)
        THEN [base EXCEPT !.err = "ValueError", !.n_emit = 3,
                          !.f76 = f76, !.count = total_count(f76),
                          !.df = d87, !.gap = gap_widget(d87, nw)]
        ELSE [base EXCEPT !.n_emit = Len(Emitted),
                          !.f76 = f76, !.count = total_count(f76),
                          !.df = d87, !.gap = gap_widget(d87, nw),
                          !.top10 = head(s132), !.csv = convert_df(f116)]

----------------------------------------------------------------------------
(* The steps of a render pass *)

\* The script threads that run passes side by side.
Threads == {"a", "b"}

IdleThread ==
    [pc |-> "idle", date_range |-> <<0, 0>>,
     magnitude_range |-> <<SliderMin, SliderMax>>, now |-> 0,
     request |-> NoRequest, response |-> NoResponse, fetched |-> FALSE,
     was_cached |-> FALSE, json_parsed |-> FALSE, df |-> <<>>,
     superseded |-> FALSE]

KeyOf(me) == CacheKey(start_date_sel(me.date_range), end_date_sel(me.date_range))

\* The pass of session me ends and leaves the page o.
EndPass(me, o) ==
    /\ date_range' = me.date_range
    /\ magnitude_range' = me.magnitude_range
    /\ now' = me.now
    /\ response' = me.response
    /\ request' = me.request
    /\ fetched' = me.fetched
    /\ was_cached' = me.was_cached
    /\ json_parsed' = me.json_parsed
    /\ df_fetched' = me.df
    /\ outcome' = o.outcome
    /\ err' = o.err
    /\ shown' = o.shown
    /\ df_filtered_l76' = o.f76
    /\ count' = o.count
    /\ gap' = o.gap
    /\ top10' = o.top10
    /\ csv' = o.csv

\* The step ends no pass.
NoPassEnded ==
    EndPass(IdleThread, [outcome |-> "none", err |-> "none", shown |-> {}, f76 |-> <<>>,
                       count |-> 0, gap |-> NoGap, top10 |-> <<>>, csv |-> <<>>])

\* The session of the pass that thread s starts had the passes of the other
\* threads under way: they are told to stop, and do at their next st.* call.
Supersede(s) ==
    [o \in Threads |->
        IF o # s /\ thread[o].pc # "idle"
        THEN [thread[o] EXCEPT !.superseded = TRUE] ELSE thread[o]]

\* The page of a pass that ended at the call of line 67.
NoPage(o, e) ==
    [outcome |-> o, err |-> e, shown |-> {}, f76 |-> <<>>, count |-> 0,
     gap |-> NoGap, top10 |-> <<>>, csv |-> <<>>]

\* Line 24 on a cache miss: requests.get is sent and the thread waits.
SendGet(s, me, ts) ==
    /\ gets' = gets + 1
    /\ dup_gets' = IF \E o \in Threads \ {s} :
                          thread[o].pc = "l24" /\ KeyOf(thread[o]) = KeyOf(me)
                   THEN dup_gets + 1 ELSE dup_gets
    /\ locked' = IF key_locks THEN locked \cup {KeyOf(me)} ELSE locked
    /\ thread' = [ts EXCEPT ![s] =
                   [me EXCEPT !.pc = "l24", !.fetched = TRUE,
                              !.request = [start |-> strftime(start_date_sel(me.date_range)),
                                           end |-> strftime(end_date_sel(me.date_range))]]]
    /\ NoPassEnded

\* The call of line 67 finds the stored table: it returns it, or (rerun) the
\* pass is stopped on leaving the spinner.  ts: the threads but for this step
\* of s.
CacheHit(s, me, rerun, ts) ==
    /\ me.superseded => rerun
    /\ IF rerun
       THEN /\ thread' = [ts EXCEPT ![s] = IdleThread]
            /\ EndPass(me, NoPage("stopped", "none"))
       ELSE /\ thread' = [ts EXCEPT ![s] = [me EXCEPT !.pc = "l70", !.df = cache[KeyOf(me)]]]
            /\ NoPassEnded
    /\ UNCHANGED <<gets, dup_gets, locked>>

\* Lines 49-67: the session's widgets hold dr and mr, the clock shows nw, and
\* get_earthquake_data is called.  same: the pass is the next one of the
\* session whose passes the other threads run.  rerun: the session has asked
\* for yet another rerun by then, and the pass is stopped on entering the
\* spinner, before the lookup.
Start(s, dr, mr, nw, rerun, same) ==
    LET me0 == [IdleThread EXCEPT !.date_range = dr, !.magnitude_range = mr, !.now = nw]
        key == KeyOf(me0)
        call == [me0 EXCEPT !.was_cached = (key \in DOMAIN cache)]
        waiting == Cardinality({o \in Threads : thread[o].pc = "lock"})
        ts == IF same THEN Supersede(s) ELSE thread
    IN  /\ thread[s].pc = "idle"
        /\ requested' = requested \cup {key}
        /\ IF rerun
           THEN /\ EndPass(call, NoPage("stopped", "none"))
                /\ thread' = ts
                /\ UNCHANGED <<gets, dup_gets, locked>>
           ELSE IF key \in DOMAIN cache
           THEN CacheHit(s, call, FALSE, ts)
           ELSE /\ gets + waiting < MaxGets
                /\ IF key_locks /\ key \in locked
                   THEN /\ thread' = [ts EXCEPT ![s] = [call EXCEPT !.pc = "lock"]]
                        /\ UNCHANGED <<gets, dup_gets, locked>>
                        /\ NoPassEnded
                   ELSE SendGet(s, call, ts)
        /\ UNCHANGED <<cache, key_locks, lenient_apply, file, ok_gets, returned_gets,
                       first_returned, last_fetched>>

\* The lock of the pair is free: the waiting call looks the pair up again.
\* rerun: the session asked for a rerun while the call waited.
AcquireLock(s, rerun) ==
    LET me == thread[s]
    IN  /\ me.pc = "lock"
        /\ KeyOf(me) \notin locked
        /\ IF KeyOf(me) \in DOMAIN cache
           THEN CacheHit(s, me, rerun, thread)
           ELSE ~rerun /\ SendGet(s, me, thread)
        /\ UNCHANGED <<cache, key_locks, lenient_apply, file, ok_gets, returned_gets,
                       requested, first_returned, last_fetched>>

\* Lines 24-46: the response resp arrives; the function raises, or returns the
\* table, which the cache stores under the pair; then the spinner is left.
\* rerun: the session asked for a rerun while the GET was in flight (its next
\* pass may have started meanwhile), and the pass is stopped there: the call
\* of line 67 does not return to the script, and an exception on its way out
\* is replaced by the rerun.
Receive(s, resp, rerun) ==
    LET me == thread[s]
        key == KeyOf(me)
        is2xx == ~resp.exc /\ 200 <= resp.status /\ resp.status < 300
    IN  /\ me.pc = "l24"
        /\ me.superseded => rerun
        /\ \E call \in {get_earthquake_data(start_date_sel(me.date_range),
                                            end_date_sel(me.date_range), resp)} :
           \E got \in {[me EXCEPT !.response = resp, !.json_parsed = call.json_parsed,
                                  !.df = call.df]} :
            /\ ok_gets' = IF is2xx THEN ok_gets + 1 ELSE ok_gets
            /\ locked' = locked \ {key}
            /\ IF call.err # "none"
               THEN \* the exception leaves get_earthquake_data and ends the pass
                    /\ thread' = [thread EXCEPT ![s] = IdleThread]
                    /\ EndPass(got, IF rerun THEN NoPage("stopped", "none")
                                    ELSE NoPage("failed", call.err))
                    /\ UNCHANGED <<cache, returned_gets, first_returned, last_fetched>>
               ELSE /\ cache' = [k \in DOMAIN cache \cup {key} |->
                                    IF k = key THEN call.df ELSE cache[k]]
                    /\ last_fetched' = [k \in DOMAIN last_fetched \cup {key} |->
                                           IF k = key THEN call.df ELSE last_fetched[k]]
                    /\ first_returned' = IF key \in DOMAIN first_returned
                                         THEN first_returned
                                         ELSE first_returned @@ (key :> call.df)
                    /\ returned_gets' = returned_gets + 1
                    /\ IF rerun
                       THEN /\ thread' = [thread EXCEPT ![s] = IdleThread]
                            /\ EndPass(got, NoPage("stopped", "none"))
                       ELSE /\ thread' = [thread EXCEPT ![s] = [got EXCEPT !.pc = "l70"]]
                            /\ NoPassEnded
        /\ UNCHANGED <<key_locks, lenient_apply, file, gets, dup_gets, requested>>

\* Line 70, df.to_csv("earthquake_data.csv", index=False), first half:
\* open(path, "w") cuts the file to nothing.
OpenFile(s) ==
    /\ thread[s].pc = "l70"
    /\ file' = <<>>
    /\ thread' = [thread EXCEPT ![s].pc = "l70w"]
    /\ UNCHANGED <<cache, locked, key_locks, lenient_apply, gets, ok_gets,
                   returned_gets, dup_gets, requested, first_returned, last_fetched>>
    /\ NoPassEnded

\* Line 70, second half: the lines are written and the file is closed.
WriteFile(s) ==
    /\ thread[s].pc = "l70w"
    /\ file' = write_over(file, to_csv_noindex(thread[s].df))
    /\ thread' = [thread EXCEPT ![s].pc = "l73"]
    /\ UNCHANGED <<cache, locked, key_locks, lenient_apply, gets, ok_gets,
                   returned_gets, dup_gets, requested, first_returned, last_fetched>>
    /\ NoPassEnded

\* What the cache holds under the pass's pair after the pass changed its table.
AfterPass(me, table) ==
    [k \in DOMAIN cache |->
        IF k = KeyOf(me) THEN cache_data_entry(cache[k], table) ELSE cache[k]]

\* Lines 73-147 up to the n-th st.* call, which is not made (n = 0: all are
\* made): the page and the table of the pass at that point.
PageAt(me, run, n) ==
    LET made == IF n = 0 THEN run.n_emit ELSE n - 1
        has(name) == name \in ShownUpTo(made)
    IN  [outcome |-> IF n # 0 THEN "stopped"
                     ELSE IF run.err = "none" THEN "done" ELSE "failed",
         err |-> IF n = 0 THEN run.err ELSE "none",
         shown |-> ShownUpTo(made),
         f76 |-> IF has("slider") THEN run.f76 ELSE <<>>,
         count |-> IF has("count") THEN run.count ELSE 0,
         gap |-> IF has("gap") THEN run.gap ELSE NoGap,
         top10 |-> IF has("table") THEN run.top10 ELSE <<>>,
         csv |-> IF has("download") THEN run.csv ELSE <<>>,
         df |-> IF has("count") THEN run.df ELSE me.df]

\* Lines 73-147 with some n of N as in PageAt; a pass told to stop does at
\* the slider of line 73.
RunTo(s, N) ==
    LET me == thread[s]
    IN  /\ me.pc = "l73"
        /\ \E s83 \in sort_values_date_s(magnitude_filter(me.df, me.magnitude_range)) :
           \E s132 \in sort_values_magnitude_desc(df_filtered_l116(s83)) :
           \E run \in {Script(me.df, me.magnitude_range, me.now, lenient_apply, s83, s132)} :
           \E n \in N :
            /\ n <= run.n_emit
            /\ me.superseded => n = 1
            /\ \E page \in {PageAt(me, run, n)} :
                /\ EndPass(me, page)
                /\ cache' = AfterPass(me, page.df)
        /\ thread' = [thread EXCEPT ![s] = IdleThread]
        /\ UNCHANGED <<locked, key_locks, lenient_apply, file, gets, ok_gets,
                       returned_gets, dup_gets, requested, first_returned, last_fetched>>

\* The pass runs to its end or to the exception that ends it.
Run(s) == RunTo(s, {0})

\* The session asked for a rerun: the runner stops the pass at its next st.*
\* call.
Stop(s) == RunTo(s, 1..Len(Emitted))

----------------------------------------------------------------------------
(* Inputs *)

\* The date slider yields a pair of dates lo <= hi: days 0 to 1, or day 1.
DateRanges == {<<0, 1>>, <<1, 1>>}

\* The magnitude slider yields lo <= hi within [SliderMin, SliderMax].
MagnitudeRanges == {<<SliderMin, SliderMax>>, <<40, 50>>, <<40, SliderMax>>}

RawRow(ts, c, m) == [date |-> ts, country |-> c, magnitude |-> m]

\* Day 0 10:00 (3.1), day 1 22:00 (5.0) and 22:01 (5.0); rows with an absent
\* and a non-numeric magnitude; a row of another country; a row dated day 2
\* 00:30.
Rows ==
    {RawRow(600, Country, Num(31)), RawRow(2760, Country, Num(50)),
     RawRow(2761, Country, Num(50)),
     RawRow(2760, Country, NaN), RawRow(2760, Country, Str),
     RawRow(2760, "Greece", Num(72)), RawRow(2910, Country, Num(50))}

OkResponse(status, body) ==
    [exc |-> FALSE, status |-> status, json_ok |-> TRUE, body |-> body]
BadJson(status) == [exc |-> FALSE, status |-> status, json_ok |-> FALSE, body |-> <<>>]
NoConnection == [exc |-> TRUE, status |-> 0, json_ok |-> FALSE, body |-> <<>>]

\* Day 1 23:00 and day 2 22:01
Nows == {2820, 4201}

Responses == {OkResponse(200, b) : b \in SeqsUpTo(Rows, MaxRows)}

\* The answers to the passes that run side by side: no connection, a 404, a
\* 304 sent with a row, a 200 carrying no row, a 300 carrying three rows (day
\* 1 01:00, day 2 00:30, day 3 01:20) and a 200 carrying two (day 1 22:00 and
\* 22:01).
ServerResponses ==
    {NoConnection, BadJson(404),
     OkResponse(304, <<RawRow(2910, Country, Num(50))>>),
     OkResponse(200, <<>>),
     OkResponse(300, <<RawRow(1500, Country, Num(40)), RawRow(2910, Country, Num(50)),
                       RawRow(4400, Country, Num(60))>>),
     OkResponse(200, <<RawRow(2760, Country, Num(50)), RawRow(2761, Country, Num(31))>>)}

\* The session that moves both sliders chooses between two magnitude ranges
\* and is answered a 404, a 304 sent with a row, or a 200 carrying three rows
\* (day 0 10:00, day 1 22:00, day 3 01:20), one of them below 4.0.
SessMagnitudeRanges == {<<SliderMin, SliderMax>>, <<40, SliderMax>>}
SessResponses ==
    {BadJson(404),
     OkResponse(304, <<RawRow(2910, Country, Num(50))>>),
     OkResponse(200, <<RawRow(600, Country, Num(31)), RawRow(2760, Country, Num(50)),
                       RawRow(4400, Country, Num(60))>>)}

----------------------------------------------------------------------------
(* Specifications *)

\* The process has started: empty cache, no session has run a pass.
Init ==
    /\ cache = <<>>
    /\ locked = {}
    /\ key_locks \in BOOLEAN
    /\ lenient_apply \in BOOLEAN
    /\ file = <<>>
    /\ gets = 0
    /\ ok_gets = 0
    /\ returned_gets = 0
    /\ dup_gets = 0
    /\ requested = {}
    /\ first_returned = <<>>
    /\ last_fetched = <<>>
    /\ thread = [s \in Threads |-> IdleThread]
    /\ date_range = IdleThread.date_range
    /\ magnitude_range = IdleThread.magnitude_range
    /\ now = IdleThread.now
    /\ response = NoResponse
    /\ request = NoRequest
    /\ fetched = FALSE
    /\ was_cached = FALSE
    /\ json_parsed = FALSE
    /\ outcome = "none"
    /\ err = "none"
    /\ shown = {}
    /\ df_fetched = <<>>
    /\ df_filtered_l76 = <<>>
    /\ count = 0
    /\ gap = NoGap
    /\ top10 = <<>>
    /\ csv = <<>>

\* Browser sessions move the date slider and two passes run side by side,
\* of two sessions or of one; the API answers a GET with any response.
ServerStart ==
    \E s \in Threads : thread[s].pc = "idle" /\
        \E dr \in DateRanges, rerun \in BOOLEAN,
           same \in {FALSE} \cup {\E o \in Threads : thread[o].pc # "idle"} :
            Start(s, dr, <<SliderMin, SliderMax>>, 2820, rerun, same)
ServerAcquireLock == \E s \in Threads, rerun \in BOOLEAN : AcquireLock(s, rerun)
ServerReceive ==
    \E s \in Threads : thread[s].pc = "l24" /\
        \E resp \in ServerResponses, rerun \in BOOLEAN : Receive(s, resp, rerun)
ServerOpenFile == \E s \in Threads : OpenFile(s)
ServerWriteFile == \E s \in Threads : WriteFile(s)
ServerRun == \E s \in Threads : Run(s)
ServerStop == \E s \in Threads : Stop(s)

Next ==
    \/ ServerStart
    \/ ServerAcquireLock
    \/ ServerReceive
    \/ ServerOpenFile
    \/ ServerWriteFile
    \/ ServerRun
    \/ ServerStop

\* No table of these passes has one row, where the pandas builds differ.
ServerInit == Init /\ ~lenient_apply

Spec == ServerInit /\ [][Next]_vars

\* One browser session moves both sliders: every pass that starts is the
\* next one of the session and stops the passes still under way.  No table of
\* these passes has one row, filtered or not, where the pandas builds differ.
InitSession == Init /\ ~lenient_apply

SessionStart ==
    \E s \in Threads : thread[s].pc = "idle" /\
        \E dr \in DateRanges, mr \in SessMagnitudeRanges, rerun \in BOOLEAN :
            Start(s, dr, mr, 2820, rerun, TRUE)
SessionAcquireLock == \E s \in Threads, rerun \in BOOLEAN : AcquireLock(s, rerun)
SessionReceive ==
    \E s \in Threads : thread[s].pc = "l24" /\
        \E resp \in SessResponses, rerun \in BOOLEAN : Receive(s, resp, rerun)
SessionOpenFile == \E s \in Threads : OpenFile(s)
SessionWriteFile == \E s \in Threads : WriteFile(s)
SessionRun == \E s \in Threads : Run(s)
SessionStop == \E s \in Threads : Stop(s)

NextSession ==
    \/ SessionStart
    \/ SessionAcquireLock
    \/ SessionReceive
    \/ SessionOpenFile
    \/ SessionWriteFile
    \/ SessionRun
    \/ SessionStop

SpecSession == InitSession /\ [][NextSession]_vars

\* The first pass of a fresh process, of one session, over every input.
InitPipeline == Init

FirstStart ==
    /\ requested = {}
    /\ \E dr \in DateRanges, mr \in MagnitudeRanges, nw \in Nows, rerun \in BOOLEAN :
          Start("a", dr, mr, nw, rerun, FALSE)
FirstReceive ==
    thread["a"].pc = "l24" /\
        \E resp \in Responses, rerun \in BOOLEAN : Receive("a", resp, rerun)
FirstOpenFile == OpenFile("a")
FirstWriteFile == WriteFile("a")
FirstRun == Run("a")
FirstStop == Stop("a")

NextPipeline ==
    \/ FirstStart
    \/ FirstReceive
    \/ FirstOpenFile
    \/ FirstWriteFile
    \/ FirstRun
    \/ FirstStop

SpecPipeline == InitPipeline /\ [][NextPipeline]_vars

----------------------------------------------------------------------------
(* Properties *)

PassKey == CacheKey(start_date_sel(date_range), end_date_sel(date_range))

InRange(m) ==
    /\ m.kind = "num"
    /\ magnitude_range[1] <= m.v
    /\ m.v <= magnitude_range[2]

\* C1: the table filtered at line 76 holds exactly the rows of the normalized
\* table whose numeric magnitude lies in [lo, hi], each as often as the
\* normalized table holds it, and filtering it again changes nothing.
C1_FilterExact ==
    "count" \in shown =>
        /\ \A r \in Range(df_fetched) \cup Range(df_filtered_l76) :
              Occurrences(r, df_filtered_l76) =
                  IF InRange(r.magnitude) THEN Occurrences(r, df_fetched) ELSE 0
        /\ magnitude_filter(df_filtered_l76, magnitude_range) = df_filtered_l76

\* A pass that kept a row on the upper bound and dropped a numeric row outside.
C1_Witness ==
    /\ "count" \in shown
    /\ \E r \in Range(df_filtered_l76) : r.magnitude.v = magnitude_range[2]
    /\ \E r \in Range(df_fetched) : r.magnitude.kind = "num" /\ ~InRange(r.magnitude)

\* C2 as stated: the request carries lo 00:00:00 and hi 23:59:59, and every
\* returned row has date_s within [lo, hi] whatever the API answered.
C2_DatesWhateverReturned ==
    fetched =>
        /\ request = [start |-> <<date_range[1], 0, 0, 0>>,
                      end |-> <<date_range[2], 23, 59, 59>>]
        /\ \A r \in Range(df_fetched) :
              date_range[1] <= r.date_s /\ r.date_s <= date_range[2]

ApiHonoursWindow ==
    \A r \in Range(response.body) :
        /\ SecondsOf(request.start) <= r.date * 60
        /\ r.date * 60 <= SecondsOf(request.end)

\* C2 amended: the request carries lo 00:00:00 and hi 23:59:59, and when every
\* row the API answered is dated within the requested window, every returned
\* row has date_s within [lo, hi].
C2_DatesWhenApiHonours ==
    fetched =>
        /\ request = [start |-> <<date_range[1], 0, 0, 0>>,
                      end |-> <<date_range[2], 23, 59, 59>>]
        /\ ApiHonoursWindow =>
              \A r \in Range(df_fetched) :
                  date_range[1] <= r.date_s /\ r.date_s <= date_range[2]

\* The API honoured the window and a row of the evening of the last day came back.
C2_Witness ==
    /\ fetched
    /\ err = "none"
    /\ ApiHonoursWindow
    /\ \E r \in Range(df_fetched) :
          r.date_s = date_range[2] /\ r.date + ISTShift >= (date_range[2] + 1) * MinutesPerDay

\* C3: the count metric is the number of rows of the normalized table whose
\* magnitude lies in the selected range, which is the length of the table
\* filtered at line 76.
C3_CountExact ==
    "count" \in shown =>
        /\ count = Cardinality({i \in 1..Len(df_fetched) : InRange(df_fetched[i].magnitude)})
        /\ count = Len(df_filtered_l76)

\* A pass over a cached table where the range dropped some rows and kept others.
C3_Witness ==
    /\ "count" \in shown
    /\ was_cached
    /\ count >= 1
    /\ count < Len(df_fetched)

\* The rows of a table as (timestamp, magnitude) pairs.
Events(t) == {<<t[i].date, t[i].magnitude>> : i \in 1..Len(t)}

\* C4: the table of the strongest earthquakes has min(10, n) rows for a
\* filtered table of n rows, is sorted by magnitude descending, and shows only
\* rows of the filtered table.
C4_TopTen ==
    "table" \in shown =>
        /\ Len(top10) = Min(TopN, Len(df_filtered_l76))
        /\ \A i \in 1..(Len(top10) - 1) : top10[i].magnitude.v >= top10[i + 1].magnitude.v
        /\ Events(top10) \subseteq Events(df_filtered_l76)

\* Rows of the normalized table inside the last 24 hours of now.
InWindow == {i \in 1..Len(df_fetched) : df_fetched[i].date >= now - WindowMinutes}

\* C5: the 24-hour gap widget warns "no data" exactly when the window holds 0
\* or 1 rows and shows a numeric average otherwise; two rows one minute apart
\* inside the window give an average of exactly one minute.
C5_GapNoDataIffSparse ==
    "gap" \in shown =>
        /\ (gap.kind = "warning") <=> (Cardinality(InWindow) <= 1)
        /\ Cardinality(InWindow) >= 2 => gap.kind = "timedelta"
        /\ (/\ Len(df_fetched) = 2
            /\ InWindow = {1, 2}
            /\ df_fetched[2].date - df_fetched[1].date = 1)
                => gap.kind = "timedelta" /\ gap.total = gap.n

\* C8: the CSV behind the download button and the file written hold one data
\* row per row of the filtered table: as many rows as the count metric shows,
\* with the same set of magnitude values.
C8_CsvIsFilteredTable ==
    "download" \in shown =>
        /\ Len(csv) = count
        /\ Len(file) = count
        /\ {r.magnitude : r \in Range(csv)} = {r.magnitude : r \in Range(df_filtered_l76)}
        /\ {r.magnitude : r \in Range(file)} = {r.magnitude : r \in Range(df_filtered_l76)}

\* C9: the 24-hour gap is computed from the filtered table only: taking the
\* rows outside the magnitude range out of the table leaves the result as it is.
C9_GapFromFilteredOnly ==
    "gap" \in shown =>
        gap = gap_widget(with_time_diff(magnitude_filter(df_fetched, magnitude_range)), now)

\* C10: a normalized row whose magnitude is absent or no number never aborts
\* the pass and never reaches a magnitude-based aggregate.
C10_BadMagnitudeDropped ==
    (\E r \in Range(df_fetched) : r.magnitude.kind # "num") =>
        /\ err \notin {"ValueError"}
        /\ \A r \in Range(df_filtered_l76) \cup Range(top10) : r.magnitude.kind = "num"


\* The call of line 67 of session s, made in this step and not stopped on
\* entering the spinner.
Called(s) == thread[s].pc = "idle" /\ thread'[s].pc # "idle"

\* Session s sent a GET in this step.
Sent(s) == thread[s].pc # "l24" /\ thread'[s].pc = "l24"

\* C6 as stated: a call with a pair for which an earlier call returned issues
\* no request and returns the table returned the first time; the successful
\* (2xx) GETs never outnumber the distinct pairs requested; and the cache
\* never holds what a pass added to the table it got.
C6_MemoTwoHundreds ==
    [][/\ \A s \in Threads :
            Called(s) /\ KeyOf(thread'[s]) \in DOMAIN first_returned =>
                /\ gets' = gets
                /\ thread'[s].pc = "l70"
                /\ thread'[s].df = first_returned[KeyOf(thread'[s])]
       /\ ok_gets' <= Cardinality(requested')
       /\ \A k \in DOMAIN cache' : cache'[k] = last_fetched'[k]]_vars

\* C6 amended: a call with a pair for which an earlier call returned issues
\* no request (no GET is ever sent for such a pair) and, unless the pass is
\* stopped at the call, returns the table returned by the latest call that
\* fetched the pair; the GETs after which get_earthquake_data returned a table
\* never outnumber the distinct pairs requested plus the GETs sent while
\* another GET for the same pair was in flight; and the cache never holds what
\* a pass added to the table it got.
C6_MemoReturned ==
    [][/\ \A s \in Threads :
            Called(s) /\ KeyOf(thread'[s]) \in DOMAIN first_returned =>
                /\ gets' = gets
                /\ thread'[s].pc = "l70"
                /\ thread'[s].df = last_fetched[KeyOf(thread'[s])]
       /\ \A s \in Threads : Sent(s) => KeyOf(thread'[s]) \notin DOMAIN first_returned
       /\ gets' # gets => \E s \in Threads : Sent(s)
       /\ returned_gets' <= Cardinality(requested') + dup_gets'
       /\ \A k \in DOMAIN cache' : cache'[k] = last_fetched'[k]]_vars

\* Two calls fetched the same pair side by side and the later answer replaced
\* the table of the earlier one; then a pass that ran to the end (so it added
\* time_diff to its table) was served the stored table.
C6_Witness ==
    /\ was_cached
    /\ ~fetched
    /\ df_fetched # <<>>
    /\ "download" \in shown
    /\ returned_gets = 2
    /\ dup_gets = 1
    /\ first_returned # last_fetched

\* The response session s got in this step, which took it off line 24.
Answered(s) == thread[s].pc = "l24" /\ thread'[s].pc # "l24"
AnswerOf(s) == IF thread'[s].pc = "idle" THEN response' ELSE thread'[s].response

FailedAny(r) == r.exc \/ ~(200 <= r.status /\ r.status < 300)
FailedRaised(r) == r.exc \/ (400 <= r.status /\ r.status < 600)

\* The pass of session s ended in this step at the call of line 67, before
\* the JSON was parsed, with nothing on its page, and the step left the file,
\* the cache and the number of GETs as they were.
Aborted(s) ==
    /\ thread'[s].pc = "idle"
    /\ ~json_parsed'
    /\ shown' = {}
    /\ fetched'
    /\ file' = file
    /\ cache' = cache
    /\ gets' = gets

\* The exception of the GET ended the pass and is shown.
Surfaced == outcome' = "failed" /\ err' \in {"ConnectionError", "HTTPError"}

\* The runner stopped the pass for the rerun the session had asked for: no
\* error is shown.
Superseded == outcome' = "stopped" /\ err' = "none"

\* C7 as stated: a pass whose GET failed or was answered with a non-2xx status
\* raises before the JSON is parsed and ends with the error shown, produces
\* nothing, writes no file, stores nothing in the cache, and sends no second
\* request.
C7_AnyNon2xxAborts ==
    [][\A s \in Threads :
          Answered(s) /\ FailedAny(AnswerOf(s)) => Aborted(s) /\ Surfaced]_vars

\* C7 amended: a pass whose GET failed or was answered with a 4xx or 5xx
\* status raises before the JSON is parsed and ends, with the error shown
\* unless the session had asked for a rerun meanwhile (then the pass is
\* stopped and shows nothing); it produces nothing, writes no file, stores
\* nothing in the cache, and sends no second request.
C7_ErrorStatusAborts ==
    [][\A s \in Threads :
          Answered(s) /\ FailedRaised(AnswerOf(s)) =>
              Aborted(s) /\ (Surfaced \/ Superseded)]_vars

\* A 4xx answer aborted a pass of a process that had written the file and
\* cached another pair before.
C7_Witness ==
    /\ outcome = "failed"
    /\ fetched
    /\ response.status = 404
    /\ err = "HTTPError"
    /\ shown = {}
    /\ file # <<>>
    /\ DOMAIN cache # {}

====
